---- MODULE Spec2Model ----
(***************************************************************************)
(* Version-management core of the registry (src/src/version.rs): the       *)
(* versions / version_authors / dependencies tables, the request handlers  *)
(* that read and write them inside a caller-scoped transaction, and the    *)
(* yank / unyank handler that also drives the git-backed index.            *)
(***************************************************************************)
EXTENDS Integers, Sequences, FiniteSets, TLC

(***************************************************************************)
(* Bounds of the model.                                                    *)
(***************************************************************************)
NumProcs == 2        \* concurrent request slots
MaxVersions == 2     \* INSERTs into versions over a behaviour
MaxAuthors == 2      \* longest author list handed to insert
MaxDeps == 2         \* dependency rows over a behaviour
MaxNow == 1          \* clock ticks over a behaviour

Procs == 1..NumProcs

(***************************************************************************)
(* Semantic versions.  A raw version string is a sequence of characters;   *)
(* semver::Version::parse turns it into a (major, minor, patch) value and  *)
(* to_string prints that value in canonical form.  Only the numeric triple *)
(* is modelled (no pre-release or build part).                             *)
(***************************************************************************)
Digits == <<"0", "1", "2", "3", "4", "5", "6", "7", "8", "9">>

IsDigit(c) == \E i \in 1..10 : Digits[i] = c

DigitVal(c) == (CHOOSE i \in 1..10 : Digits[i] = c) - 1

\* from_str::<uint> on a run of digits: leading zeros are accepted.
RECURSIVE NumVal(_)
NumVal(t) ==
  IF Len(t) = 0 THEN 0
  ELSE 10 * NumVal(SubSeq(t, 1, Len(t) - 1)) + DigitVal(t[Len(t)])

IsNum(t) == Len(t) > 0 /\ \A i \in 1..Len(t) : IsDigit(t[i])

RECURSIVE NatToStr(_)
NatToStr(n) ==
  IF n < 10 THEN <<Digits[n + 1]>>
  ELSE NatToStr(n \div 10) \o <<Digits[(n % 10) + 1]>>

NoSemver == <<>>

\* semver::Version::parse: Some(<<major, minor, patch>>) or None (NoSemver).
semver_parse(s) ==
  LET dots == {i \in 1..Len(s) : s[i] = "."} IN
  IF Cardinality(dots) # 2 THEN NoSemver
  ELSE LET d1 == CHOOSE i \in dots : \A j \in dots : i <= j
           d2 == CHOOSE i \in dots : \A j \in dots : j <= i
           a == SubSeq(s, 1, d1 - 1)
           b == SubSeq(s, d1 + 1, d2 - 1)
           c == SubSeq(s, d2 + 1, Len(s))
       IN IF IsNum(a) /\ IsNum(b) /\ IsNum(c)
          THEN <<NumVal(a), NumVal(b), NumVal(c)>>
          ELSE NoSemver

\* semver::Version::to_string (Show): the canonical string of a value.
semver_to_string(v) ==
  NatToStr(v[1]) \o <<".">> \o NatToStr(v[2]) \o <<".">> \o NatToStr(v[3])

\* Version::valid
valid(s) == semver_parse(s) # NoSemver

\* Raw version strings a request may carry: canonical, with a leading zero,
\* and malformed.
S100 == <<"1", ".", "0", ".", "0">>
S0100 == <<"0", "1", ".", "0", ".", "0">>
S200 == <<"2", ".", "0", ".", "0">>
SBad == <<"1", ".", "0">>
RawSemvers == {S100, S0100, S200, SBad}

\* Parsed versions a publisher may hand to insert.
SemverValues == {<<1, 0, 0>>, <<2, 0, 0>>}

(***************************************************************************)
(* Collaborators: crates with their owners, users, acting identities.      *)
(***************************************************************************)
Users == {5, 7}
Anonymous == 0
Crates == { [id |-> 1, name |-> "demo",  owners |-> {5}],
            [id |-> 2, name |-> "alpha", owners |-> {5, 7}] }
CrateIds == {c.id : c \in Crates}
CrateNames == {c.name : c \in Crates}
RequestNames == CrateNames \cup {"ghost"}
NoCrate == [id |-> 0, name |-> "", owners |-> {}]

\* Crate::find_by_name: the crate of that name, or NoCrate (NotFound).
Crate_find_by_name(name) ==
  IF \E c \in Crates : c.name = name
  THEN CHOOSE c \in Crates : c.name = name
  ELSE NoCrate

\* Crate::find by id.
Crate_find(id) ==
  IF \E c \in Crates : c.id = id
  THEN CHOOSE c \in Crates : c.id = id
  ELSE NoCrate

\* krate.owners(tx)
Crate_owners(krate) == krate.owners

(***************************************************************************)
(* Feature maps and their stored blob (json::encode / json::decode).  A    *)
(* map is a function from feature names to lists; its blob is a text, a    *)
(* sequence of tokens: an opening brace, then for each key in key order    *)
(* the key, a bracketed list of names, and a closing brace.  The column    *)
(* features is nullable: <<>> is NULL, <<blob>> a stored text.             *)
(***************************************************************************)
FeatureKeys == <<"std", "ssl">>
EmptyFeatures == [k \in {} |-> <<>>]
FeatureMaps == { EmptyFeatures, [k \in {"ssl"} |-> <<"std">>] }

Punct == {"{", "}", "[", "]"}

RECURSIVE encode_members(_, _)
encode_members(f, i) ==
  IF i > Len(FeatureKeys) THEN <<>>
  ELSE (IF FeatureKeys[i] \in DOMAIN f
        THEN <<FeatureKeys[i], "[">> \o f[FeatureKeys[i]] \o <<"]">>
        ELSE <<>>) \o encode_members(f, i + 1)

json_encode(f) == <<"{">> \o encode_members(f, 1) \o <<"}">>

DecodeError == [ok |-> FALSE, map |-> EmptyFeatures]

RECURSIVE decode_members(_)
decode_members(t) ==
  IF t = <<>> THEN [ok |-> TRUE, map |-> EmptyFeatures]
  ELSE IF \/ Len(t) < 3
          \/ t[1] \in Punct
          \/ t[2] # "["
          \/ ~ \E j \in 3..Len(t) : t[j] = "]"
  THEN DecodeError
  ELSE LET close == CHOOSE j \in 3..Len(t) :
                      t[j] = "]" /\ \A k \in 3..(j - 1) : t[k] # "]"
           items == SubSeq(t, 3, close - 1)
           rest == decode_members(SubSeq(t, close + 1, Len(t)))
       IN IF (\E k \in 1..Len(items) : items[k] \in Punct) \/ ~rest.ok
          THEN DecodeError
          ELSE [ok |-> TRUE,
                map |-> [k \in DOMAIN rest.map \cup {t[1]} |->
                           IF k \in DOMAIN rest.map THEN rest.map[k]
                           ELSE items]]

\* json::decode into HashMap<String, Vec<String>>: the map, or an error.
json_decode(blob) ==
  IF Len(blob) < 2 \/ blob[1] # "{" \/ blob[Len(blob)] # "}"
  THEN DecodeError
  ELSE decode_members(SubSeq(blob, 2, Len(blob) - 1))

(***************************************************************************)
(* The relational store, the index and the requests in flight.             *)
(***************************************************************************)
VARIABLES
  versions,         \* committed rows of table versions, in storage order
  version_authors,  \* committed rows of table version_authors
  dependencies,     \* committed rows of table dependencies
  index,            \* git index: <<crate name, num>> -> yanked flag
  nextId,           \* serial of versions.id (never rolled back)
  now,              \* the clock read by ::now()
  req,              \* per request slot: the handler's locals and position
  tx,               \* per request slot: its transaction's uncommitted writes
  nextDepId         \* serial of dependencies.id

vars == <<versions, version_authors, dependencies, index, nextId, now, req,
          tx, nextDepId>>

NoUser == 0

\* struct Version, lines 24-33; NoVersion stands for None / no row.
NoVersion ==
  [id |-> 0, crate_id |-> 0, num |-> NoSemver, updated_at |-> 0,
   created_at |-> 0, downloads |-> 0, features |-> EmptyFeatures,
   yanked |-> FALSE]

\* The task fails (unwrap on an Err, lines 193 and 198): no Version and no
\* result is produced.
Panicked == [NoVersion EXCEPT !.id = -1]

\* Variant: a NULL blob is decoded like a stored text (no Option).
from_row_null_decoded(row) ==
  LET features == json_decode(IF row.features = <<>> THEN <<>>
                              ELSE row.features[1])
      num == semver_parse(row.num)
  IN IF ~features.ok \/ num = NoSemver THEN Panicked
     ELSE [id |-> row.id,
           crate_id |-> row.crate_id,
           num |-> num,
           updated_at |-> row.updated_at,
           created_at |-> row.created_at,
           downloads |-> row.downloads,
           features |-> features.map,
           yanked |-> row.yanked]

\* Model::from_row for Version, lines 189-205: a NULL blob is the empty
\* map; a blob that does not decode, or a num that does not parse, panics.
from_row(row) ==
  LET features == IF row.features = <<>>
                  THEN [ok |-> TRUE, map |-> EmptyFeatures]
                  ELSE json_decode(row.features[1])
      num == semver_parse(row.num)
  IN IF ~features.ok \/ num = NoSemver THEN Panicked
     ELSE [id |-> row.id,
           crate_id |-> row.crate_id,
           num |-> num,
           updated_at |-> row.updated_at,
           created_at |-> row.created_at,
           downloads |-> row.downloads,
           features |-> features.map,
           yanked |-> row.yanked]

\* The row written by the INSERT of Version::insert, lines 82-88: both
\* timestamps are $3, downloads is 0, yanked takes the column default.
new_version_row(id, crate_id, num, t, features) ==
  [id |-> id, crate_id |-> crate_id, num |-> num, updated_at |-> t,
   created_at |-> t, downloads |-> 0, features |-> features,
   yanked |-> FALSE]

NoTx == [failed |-> FALSE, versions |-> <<>>, authors |-> <<>>,
         deps |-> <<>>, yanks |-> {}]

\* Variant: the UPDATE has no WHERE id = $2 and writes every row.
apply_yanks_all(rows, yanks) ==
  [i \in 1..Len(rows) |->
     IF yanks # {}
     THEN [rows[i] EXCEPT !.yanked = (CHOOSE w \in yanks : TRUE)[2]]
     ELSE rows[i]]

\* UPDATE versions SET yanked = $1 WHERE id = $2, applied to a table.
apply_yanks(rows, yanks) ==
  [i \in 1..Len(rows) |->
     IF \E w \in yanks : w[1] = rows[i].id
     THEN [rows[i] EXCEPT !.yanked =
             (CHOOSE w \in yanks : w[1] = rows[i].id)[2]]
     ELSE rows[i]]

\* What a statement of transaction p reads: the committed rows and p's own
\* uncommitted writes (read committed isolation).
visible_versions(p) == apply_yanks(versions, tx[p].yanks) \o tx[p].versions
visible_authors(p) == version_authors \o tx[p].authors
visible_deps(p) == dependencies \o tx[p].deps

\* Variant: an UPDATE does not wait for the uncommitted write of another
\* transaction.
row_locked_off(p, id) == FALSE

\* Row-level lock: another transaction holds an uncommitted write of row id.
row_locked(p, id) ==
  \E q \in Procs \ {p} : \E w \in tx[q].yanks : w[1] = id

IdleReq ==
  [kind |-> "none", pc |-> "idle", yanked |-> FALSE, user |-> Anonymous,
   crate_name |-> "", semver |-> <<>>, version |-> NoVersion,
   krate |-> NoCrate, result |-> "none", log |-> <<>>, out |-> <<>>,
   authors |-> <<>>, todo |-> <<>>, prior |-> <<>>, id |-> 0,
   ids |-> {}, crate_id |-> 0, num |-> NoSemver]

Free(p) == req[p].pc \in {"idle", "done"}

Init ==
  /\ versions = <<>>
  /\ version_authors = <<>>
  /\ dependencies = <<>>
  /\ index = [k \in CrateNames \X {semver_to_string(v) : v \in SemverValues}
                |-> FALSE]
  /\ nextId = 1
  /\ now = 0
  /\ req = [p \in Procs |-> IdleReq]
  /\ tx = [p \in Procs |-> NoTx]
  /\ nextDepId = 1

(***************************************************************************)
(* VersionStore reads.                                                     *)
(***************************************************************************)
\* Version::find, lines 62-64 (Model::find): the row with that id.
Version_find(rows, id) ==
  LET hit == SelectSeq(rows, LAMBDA r : r.id = id) IN
  IF Len(hit) = 0 THEN [err |-> "not_found", version |-> NoVersion]
  ELSE IF from_row(hit[1]) = Panicked
  THEN [err |-> "panic", version |-> NoVersion]
  ELSE [err |-> "ok", version |-> from_row(hit[1])]

\* Variant: the query matches on num alone.
find_by_num_any_crate(rows, crate_id, num) ==
  LET s == semver_to_string(num)
      hit == SelectSeq(rows, LAMBDA r : r.num = s)
  IN IF Len(hit) = 0 THEN [err |-> "ok", version |-> NoVersion]
     ELSE IF from_row(hit[1]) = Panicked
     THEN [err |-> "panic", version |-> NoVersion]
     ELSE [err |-> "ok", version |-> from_row(hit[1])]

\* Version::find_by_num, lines 66-73: Ok(None) or Ok(Some(first row)).
find_by_num(rows, crate_id, num) ==
  LET s == semver_to_string(num)
      hit == SelectSeq(rows, LAMBDA r : r.crate_id = crate_id /\ r.num = s)
  IN IF Len(hit) = 0 THEN [err |-> "ok", version |-> NoVersion]
     ELSE IF from_row(hit[1]) = Panicked
     THEN [err |-> "panic", version |-> NoVersion]
     ELSE [err |-> "ok", version |-> from_row(hit[1])]

\* Variant: the crate is looked up before the semver string is parsed.
version_and_crate_crate_first(rows, crate_name, semver) ==
  LET num == semver_parse(semver)
      krate == Crate_find_by_name(crate_name)
      found == find_by_num(rows, krate.id, num)
  IN IF krate = NoCrate
     THEN [err |-> "crate_not_found", version |-> NoVersion, krate |-> NoCrate]
     ELSE IF num = NoSemver
     THEN [err |-> "invalid_semver", version |-> NoVersion, krate |-> NoCrate]
     ELSE IF found.version = NoVersion
     THEN [err |-> "no_such_version", version |-> NoVersion, krate |-> NoCrate]
     ELSE [err |-> "ok", version |-> found.version, krate |-> krate]

\* version_and_crate, lines 262-276.
version_and_crate(rows, crate_name, semver) ==
  LET num == semver_parse(semver)
      krate == Crate_find_by_name(crate_name)
      found == find_by_num(rows, krate.id, num)
  IN IF num = NoSemver
     THEN [err |-> "invalid_semver", version |-> NoVersion, krate |-> NoCrate]
     ELSE IF krate = NoCrate
     THEN [err |-> "crate_not_found", version |-> NoVersion, krate |-> NoCrate]
     ELSE IF found.err # "ok"
     THEN [err |-> found.err, version |-> NoVersion, krate |-> NoCrate]
     ELSE IF found.version = NoVersion
     THEN [err |-> "no_such_version", version |-> NoVersion, krate |-> NoCrate]
     ELSE [err |-> "ok", version |-> found.version, krate |-> krate]

(***************************************************************************)
(* End of a request's transaction.  The boundary is owned by the request   *)
(* layer: a transaction in which a statement failed is rolled back, any    *)
(* other is committed when the handler returns.                            *)
(***************************************************************************)
IsYankKind(k) == k \in {"yank", "unyank"}

updates_done(log) ==
  Len(SelectSeq(log, LAMBDA e : e[1] = "UPDATE" /\ e[4]))

index_calls(log) == Len(SelectSeq(log, LAMBDA e : e[1] = "INDEX"))

\* What a slot keeps of a request whose transaction has ended: a yank or
\* unyank call whole, of any other request its kind and result.
finished(r) ==
  IF IsYankKind(r.kind) THEN [r EXCEPT !.pc = "done"]
  ELSE [IdleReq EXCEPT !.kind = r.kind, !.pc = "done", !.result = r.result]

commit(p) ==
  /\ versions' = apply_yanks(versions, tx[p].yanks) \o tx[p].versions
  /\ version_authors' = version_authors \o tx[p].authors
  /\ dependencies' = dependencies \o tx[p].deps

rollback(p) ==
  UNCHANGED <<versions, version_authors, dependencies>>

tx_end(p) ==
  /\ req[p].pc = "end"
  /\ IF tx[p].failed THEN rollback(p) ELSE commit(p)
  /\ tx' = [tx EXCEPT ![p] = NoTx]
  /\ req' = [req EXCEPT ![p] = finished(req[p])]
  /\ UNCHANGED <<index, nextId, now, nextDepId>>

(***************************************************************************)
(* YankStateMachine: yank, unyank and modify_yank, lines 328-353.          *)
(***************************************************************************)
\* Variant: the owner check lets every identity through.
is_owner_anyone(owners, user) == TRUE

\* line 341: owners.iter().any(|u| u.id == user.id)
is_owner(owners, user) == \E u \in owners : u = user

\* Variant: the comparison of line 345 is dropped, every call writes.
must_flip_always(version, yanked) == TRUE

\* line 345: version.yanked != yanked
must_flip(version, yanked) == version.yanked # yanked

\* The call that slot p finished last, when the call now starting repeats
\* it and no other slot has ever run a request: its UPDATEs and index calls.
prior_call(p, yanked, crate_name, semver, user) ==
  IF /\ req[p].pc = "done" /\ IsYankKind(req[p].kind)
     /\ req[p].yanked = yanked /\ req[p].crate_name = crate_name
     /\ semver_parse(req[p].semver) = semver_parse(semver)
     /\ req[p].user = user
     /\ \A q \in Procs \ {p} : req[q].pc = "idle"
  THEN <<[updates |-> updates_done(req[p].log),
          index_calls |-> index_calls(req[p].log)]>>
  ELSE <<>>

\* modify_yank up to the comparison of line 345: version_and_crate,
\* req.user(), the owner check and the no-op return.
modify_yank(p, yanked, crate_name, semver, user) ==
  /\ Free(p)
  /\ LET vc == version_and_crate(visible_versions(p), crate_name, semver)
         base == [IdleReq EXCEPT
                    !.kind = IF yanked THEN "yank" ELSE "unyank",
                    !.yanked = yanked, !.user = user,
                    !.crate_name = crate_name, !.semver = semver,
                    !.version = vc.version, !.krate = vc.krate,
                    !.prior = prior_call(p, yanked, crate_name, semver, user)]
         outcome ==
           IF vc.err # "ok" THEN vc.err
           ELSE IF user = Anonymous THEN "unauthorized"
           ELSE IF ~is_owner(Crate_owners(vc.krate), user) THEN "unauthorized"
           ELSE IF must_flip(vc.version, yanked) THEN "flip"
           ELSE "ok"
     IN req' = [req EXCEPT ![p] =
                  IF outcome = "flip" THEN [base EXCEPT !.pc = "update"]
                  ELSE [base EXCEPT !.pc = "done", !.result = outcome]]
  /\ UNCHANGED <<versions, version_authors, dependencies, index, nextId, now,
                 tx, nextDepId>>

\* yank, lines 328-330
yank(p, crate_name, semver, user) ==
  modify_yank(p, TRUE, crate_name, semver, user)

\* unyank, lines 332-334
unyank(p, crate_name, semver, user) ==
  modify_yank(p, FALSE, crate_name, semver, user)

\* Variant: the error of the UPDATE is dropped (no try! at line 346) and the
\* index is called all the same.
Version_yank_unchecked(p) ==
  /\ req[p].pc = "update"
  /\ ~row_locked(p, req[p].version.id)
  /\ \E ok \in BOOLEAN :
       /\ tx' = IF ok
                THEN [tx EXCEPT ![p].yanks =
                        @ \cup {<<req[p].version.id, req[p].yanked>>}]
                ELSE [tx EXCEPT ![p].failed = TRUE]
       /\ req' = [req EXCEPT
                    ![p].pc = "git",
                    ![p].log = Append(@, <<"UPDATE", req[p].version.id,
                                           req[p].yanked, ok>>)]
  /\ UNCHANGED <<versions, version_authors, dependencies, index, nextId, now,
                 nextDepId>>

\* Version::yank, lines 181-185, called at line 346.  The UPDATE waits for
\* the row lock; it may fail, and then modify_yank returns the error.
Version_yank(p) ==
  /\ req[p].pc = "update"
  /\ ~row_locked(p, req[p].version.id)
  /\ \E ok \in BOOLEAN :
       LET e == <<"UPDATE", req[p].version.id, req[p].yanked, ok>> IN
       IF ok
       THEN /\ tx' = [tx EXCEPT ![p].yanks =
                        {w \in @ : w[1] # req[p].version.id}
                          \cup {<<req[p].version.id, req[p].yanked>>}]
            /\ req' = [req EXCEPT ![p].pc = "git",
                                  ![p].log = Append(@, e)]
       ELSE /\ tx' = [tx EXCEPT ![p].failed = TRUE]
            /\ req' = [req EXCEPT ![p].pc = "end",
                                  ![p].result = "storage_error",
                                  ![p].log = Append(@, e)]
  /\ UNCHANGED <<versions, version_authors, dependencies, index, nextId, now,
                 nextDepId>>

\* Variant: a failed index call takes the flag update back before the
\* error is returned.
git_yank_compensating(p) ==
  /\ req[p].pc = "git"
  /\ \E ok \in BOOLEAN :
       LET key == <<req[p].krate.name, semver_to_string(req[p].version.num)>>
           e == <<"INDEX", key[1], key[2], req[p].yanked, ok>>
       IN /\ index' = IF ok THEN [index EXCEPT ![key] = req[p].yanked]
                      ELSE index
          /\ tx' = IF ok THEN tx ELSE [tx EXCEPT ![p].yanks = {}]
          /\ req' = [req EXCEPT ![p].pc = "end",
                                ![p].result = IF ok THEN "ok"
                                              ELSE "index_error",
                                ![p].log = Append(@, e)]
  /\ UNCHANGED <<versions, version_authors, dependencies, nextId, now,
                 nextDepId>>

\* git::yank, called at line 347 with (krate.name, &version.num, yanked):
\* the index takes the flag, or the call fails and leaves the index as it
\* was; modify_yank returns the error or the ok response of line 352.
git_yank(p) ==
  /\ req[p].pc = "git"
  /\ \E ok \in BOOLEAN :
       LET key == <<req[p].krate.name, semver_to_string(req[p].version.num)>>
           e == <<"INDEX", key[1], key[2], req[p].yanked, ok>>
       IN /\ index' = IF ok THEN [index EXCEPT ![key] = req[p].yanked]
                      ELSE index
          /\ req' = [req EXCEPT ![p].pc = "end",
                                ![p].result = IF ok THEN "ok"
                                              ELSE "index_error",
                                ![p].log = Append(@, e)]
  /\ UNCHANGED <<versions, version_authors, dependencies, nextId, now, tx,
                 nextDepId>>

(***************************************************************************)
(* VersionStore writes: Version::insert and Version::add_author.           *)
(***************************************************************************)
AuthorNames == {"ann", "bob"}
AuthorLists ==
  UNION {[1..n -> AuthorNames] : n \in 0..MaxAuthors}

\* Variant: table versions has no unique key.
unique_violation_off(rows, crate_id, num) == FALSE

\* Unique key of table versions on (crate_id, num): the INSERT of a second
\* row with the same pair is refused by the store.
unique_violation(rows, crate_id, num) ==
  \E i \in 1..Len(rows) : rows[i].crate_id = crate_id /\ rows[i].num = num

\* The INSERT waits while another transaction holds an uncommitted row with
\* the same key.
key_locked(p, crate_id, num) ==
  \E q \in Procs \ {p} : unique_violation(tx[q].versions, crate_id, num)

\* Version::insert, lines 75-91: the INSERT ... RETURNING * and from_row.
\* The store answers with the new row, with an error, or with no row.
Version_insert(p, crate_id, num, features, authors) ==
  /\ Free(p)
  /\ nextId <= MaxVersions
  /\ LET s == semver_to_string(num)
         blob == <<json_encode(features)>>
         row == new_version_row(nextId, crate_id, s, now, blob)
         dup == unique_violation(visible_versions(p), crate_id, s)
         base == [IdleReq EXCEPT !.kind = "insert", !.authors = authors]
         ev(outcome) == <<<<"INSERT", outcome>>>>
     IN /\ ~key_locked(p, crate_id, s)
        /\ \E db \in {"ok", "error", "norow"} :
             IF dup \/ db = "error"
             THEN /\ tx' = [tx EXCEPT ![p].failed = TRUE]
                  /\ req' = [req EXCEPT ![p] =
                               [base EXCEPT
                                  !.pc = "end", !.result = "storage_error",
                                  !.log = ev(IF dup THEN "unique_violation"
                                             ELSE "error")]]
                  /\ nextId' = IF dup THEN nextId + 1 ELSE nextId
             ELSE IF db = "norow"
             THEN /\ req' = [req EXCEPT ![p] =
                               [base EXCEPT !.pc = "end",
                                            !.result = "no_version_returned",
                                            !.log = ev("norow")]]
                  /\ UNCHANGED <<tx, nextId>>
             ELSE /\ tx' = [tx EXCEPT ![p].versions = Append(@, row)]
                  /\ nextId' = nextId + 1
                  /\ req' = [req EXCEPT ![p] =
                               [base EXCEPT
                                  !.crate_id = crate_id,
                                  !.num = num,
                                  !.version = from_row(row),
                                  !.todo = authors,
                                  !.log = ev("ok"),
                                  !.pc = IF authors = <<>> THEN "end"
                                         ELSE "authors",
                                  !.result = IF authors = <<>> THEN "ok"
                                             ELSE "none"]]
  /\ UNCHANGED <<versions, version_authors, dependencies, index, now,
                 nextDepId>>

\* Variant: the result of add_author is dropped (no try! at line 93) and the
\* loop goes on.
add_author_swallow(p) ==
  /\ req[p].pc = "authors"
  /\ \E ok \in BOOLEAN :
       LET name == Head(req[p].todo)
           rest == Tail(req[p].todo)
           row == [version_id |-> req[p].version.id, name |-> name,
                   user_id |-> NoUser]
       IN /\ tx' = IF ok THEN [tx EXCEPT ![p].authors = Append(@, row)]
                   ELSE [tx EXCEPT ![p].failed = TRUE]
          /\ req' = [req EXCEPT
                       ![p].todo = rest,
                       ![p].pc = IF rest = <<>> THEN "end" ELSE "authors",
                       ![p].result = IF rest = <<>> THEN "ok" ELSE "none"]
  /\ UNCHANGED <<versions, version_authors, dependencies, index, nextId, now,
                 nextDepId>>

\* Variant: a name the version already has is not inserted again.
add_author_dedup(p) ==
  /\ req[p].pc = "authors"
  /\ \E ok \in BOOLEAN :
       LET name == Head(req[p].todo)
           rest == Tail(req[p].todo)
           row == [version_id |-> req[p].version.id, name |-> name,
                   user_id |-> NoUser]
           seen == \E i \in 1..Len(tx[p].authors) : tx[p].authors[i] = row
       IN IF ok
          THEN /\ tx' = IF seen THEN tx
                        ELSE [tx EXCEPT ![p].authors = Append(@, row)]
               /\ req' = [req EXCEPT
                            ![p].todo = rest,
                            ![p].pc = IF rest = <<>> THEN "end" ELSE "authors",
                            ![p].result = IF rest = <<>> THEN "ok" ELSE "none"]
          ELSE /\ tx' = [tx EXCEPT ![p].failed = TRUE]
               /\ req' = [req EXCEPT ![p].pc = "end",
                                     ![p].result = "storage_error"]
  /\ UNCHANGED <<versions, version_authors, dependencies, index, nextId, now,
                 nextDepId>>

\* One turn of the loop of lines 92-94: Version::add_author, lines 173-179,
\* for the next supplied name; an error ends insert (try!), the last name
\* ends it with Ok(ret).
add_author(p) ==
  /\ req[p].pc = "authors"
  /\ \E ok \in BOOLEAN :
       LET name == Head(req[p].todo)
           rest == Tail(req[p].todo)
           row == [version_id |-> req[p].version.id, name |-> name,
                   user_id |-> NoUser]
       IN IF ok
          THEN /\ tx' = [tx EXCEPT ![p].authors = Append(@, row)]
               /\ req' = [req EXCEPT
                            ![p].todo = rest,
                            ![p].pc = IF rest = <<>> THEN "end" ELSE "authors",
                            ![p].result = IF rest = <<>> THEN "ok" ELSE "none"]
          ELSE /\ tx' = [tx EXCEPT ![p].failed = TRUE]
               /\ req' = [req EXCEPT ![p].pc = "end",
                                     ![p].result = "storage_error"]
  /\ UNCHANGED <<versions, version_authors, dependencies, index, nextId, now,
                 nextDepId>>

(***************************************************************************)
(* DependencyGraphBuilder: Version::add_dependency, lines 128-143.         *)
(***************************************************************************)
DepSpecs ==
  [name : RequestNames, version_req : {"^1"}, optional : {FALSE},
   default_features : {TRUE}, features : {<<>>}]

\* The row persisted by Dependency::insert.
new_dependency_row(id, version_id, crate_id, dep) ==
  [id |-> id, version_id |-> version_id, crate_id |-> crate_id,
   req |-> dep.version_req, optional |-> dep.optional,
   default_features |-> dep.default_features, features |-> dep.features]

\* Version::add_dependency, lines 128-143, on the version of row i.  The
\* crate lookup finds the crate, finds none, or fails in the store; map_err
\* of lines 132-134 turns either failure into the human error.
add_dependency(p, i, dep) ==
  /\ Free(p)
  /\ nextDepId <= MaxDeps
  /\ i \in 1..Len(visible_versions(p))
  /\ \E lookup \in {"ok", "error"} :
     LET self == from_row(visible_versions(p)[i])
         found == Crate_find_by_name(dep.name)
         krate == IF lookup = "ok" THEN found ELSE NoCrate
         outcome == IF lookup # "ok" THEN "storage_error"
                    ELSE IF found = NoCrate THEN "not_found" ELSE "found"
         base == [IdleReq EXCEPT !.kind = "add_dependency",
                                 !.crate_name = dep.name,
                                 !.version = self, !.krate = krate,
                                 !.log = <<<<"LOOKUP", outcome>>>>]
     IN IF krate = NoCrate
        THEN /\ req' = [req EXCEPT ![p] =
                          [base EXCEPT !.pc = "done",
                                       !.result = "no_known_crate"]]
             /\ UNCHANGED <<tx, nextDepId>>
        ELSE \E ok \in BOOLEAN :
               IF ok
               THEN /\ tx' = [tx EXCEPT ![p].deps =
                                Append(@, new_dependency_row(
                                            nextDepId, self.id, krate.id, dep))]
                    /\ nextDepId' = nextDepId + 1
                    /\ req' = [req EXCEPT ![p] =
                                 [base EXCEPT !.pc = "end", !.result = "ok"]]
               ELSE /\ tx' = [tx EXCEPT ![p].failed = TRUE]
                    /\ UNCHANGED nextDepId
                    /\ req' = [req EXCEPT ![p] =
                                 [base EXCEPT !.pc = "end",
                                              !.result = "storage_error"]]
  /\ UNCHANGED <<versions, version_authors, dependencies, index, nextId,
                 now>>

\* Variant: the query has no WHERE dependencies.version_id = $1.
Version_dependencies_all(rows, id) ==
  [i \in 1..Len(rows) |->
     [dep |-> rows[i], crate_name |-> Crate_find(rows[i].crate_id).name]]

\* Version::dependencies, lines 146-157: the rows of the version in
\* storage order, each with the name of its crate (LEFT JOIN crates).
Version_dependencies(rows, id) ==
  LET hit == SelectSeq(rows, LAMBDA r : r.version_id = id)
  IN [i \in 1..Len(hit) |->
        [dep |-> hit[i], crate_name |-> Crate_find(hit[i].crate_id).name]]

\* dependencies, lines 278-289: each pair encoded with its crate name.
dependencies_req(p, crate_name, semver) ==
  /\ Free(p)
  /\ LET vc == version_and_crate(visible_versions(p), crate_name, semver)
         deps == Version_dependencies(visible_deps(p), vc.version.id)
         base == [IdleReq EXCEPT !.kind = "dependencies", !.pc = "done",
                                 !.crate_name = crate_name,
                                 !.semver = semver,
                                 !.version = vc.version, !.krate = vc.krate,
                                 !.result = vc.err]
     IN req' = [req EXCEPT ![p] =
                  IF vc.err # "ok" THEN base
                  ELSE [base EXCEPT
                          !.out = [i \in 1..Len(deps) |->
                                     [id |-> deps[i].dep.id,
                                      version_id |-> deps[i].dep.version_id,
                                      crate_id |-> deps[i].crate_name,
                                      req |-> deps[i].dep.req,
                                      optional |-> deps[i].dep.optional,
                                      default_features |->
                                        deps[i].dep.default_features,
                                      features |-> deps[i].dep.features]]]]
  /\ UNCHANGED <<versions, version_authors, dependencies, index, nextId, now,
                 tx, nextDepId>>

(***************************************************************************)
(* VersionEncoder and the get-version handler.                             *)
(***************************************************************************)
\* Variant: the paths are built from the major number alone.
encodable_major(v, crate_name) ==
  LET num == semver_to_string(v.num)
      path(leaf) == <<"/api/v1/crates/", crate_name, "/">>
                      \o NatToStr(v.num[1]) \o <<leaf>>
  IN [id |-> v.id, krate |-> crate_name, num |-> num,
      dl_path |-> path("/download"),
      updated_at |-> v.updated_at, created_at |-> v.created_at,
      downloads |-> v.downloads, features |-> v.features,
      yanked |-> v.yanked,
      links |-> [dependencies |-> path("/dependencies"),
                 version_downloads |-> path("/downloads"),
                 authors |-> path("/authors")]]

\* Version::encodable, lines 102-124.  A path is the text that format!
\* builds: the fixed prefix, the crate name, a slash, the characters of the
\* canonical version string and the fixed suffix.
encodable(v, crate_name) ==
  LET num == semver_to_string(v.num)
      path(leaf) == <<"/api/v1/crates/", crate_name, "/">> \o num \o <<leaf>>
  IN [id |-> v.id, krate |-> crate_name, num |-> num,
      dl_path |-> path("/download"),
      updated_at |-> v.updated_at, created_at |-> v.created_at,
      downloads |-> v.downloads, features |-> v.features,
      yanked |-> v.yanked,
      links |-> [dependencies |-> path("/dependencies"),
                 version_downloads |-> path("/downloads"),
                 authors |-> path("/authors")]]

\* show, lines 244-260, addressed by (crate name, semver).
show(p, crate_name, semver) ==
  /\ Free(p)
  /\ LET vc == version_and_crate(visible_versions(p), crate_name, semver)
         base == [IdleReq EXCEPT !.kind = "show", !.pc = "done",
                                 !.crate_name = crate_name,
                                 !.semver = semver,
                                 !.version = vc.version, !.krate = vc.krate,
                                 !.result = vc.err]
     IN req' = [req EXCEPT ![p] =
                  IF vc.err = "ok"
                  THEN [base EXCEPT
                          !.out = <<encodable(vc.version, vc.krate.name)>>]
                  ELSE base]
  /\ UNCHANGED <<versions, version_authors, dependencies, index, nextId, now,
                 tx, nextDepId>>

\* show, lines 247-254, addressed by version id (an id that does not parse
\* is looked up as 0).
show_by_id(p, id) ==
  /\ Free(p)
  /\ LET found == Version_find(visible_versions(p), id)
         krate == Crate_find(found.version.crate_id)
         base == [IdleReq EXCEPT !.kind = "show_by_id", !.pc = "done",
                                 !.id = id, !.version = found.version]
     IN req' = [req EXCEPT ![p] =
                  IF found.err # "ok"
                  THEN [base EXCEPT !.result = found.err]
                  ELSE IF krate = NoCrate
                  THEN [base EXCEPT !.result = "not_found"]
                  ELSE [base EXCEPT
                          !.result = "ok", !.krate = krate,
                          !.out = <<encodable(found.version, krate.name)>>]]
  /\ UNCHANGED <<versions, version_authors, dependencies, index, nextId, now,
                 tx, nextDepId>>

\* The clock advances.
Tick ==
  /\ now < MaxNow
  /\ now' = now + 1
  /\ UNCHANGED <<versions, version_authors, dependencies, index, nextId, req,
                 tx, nextDepId>>

\* The acting identities of the lookup requests: owner 5 and nobody.
Identities == {5, Anonymous}

(***************************************************************************)
(* List by ids: index, lines 209-242.                                      *)
(***************************************************************************)
\* The ids[] parameters that parse, as the set the IN (...) list denotes.
IdSets == SUBSET (1..(MaxVersions + 1))

\* Variant: no guard on ids.len() (line 227); the query with an empty IN
\* list is sent too and the store rejects it.
index_req_unguarded(p, ids) ==
  /\ Free(p)
  /\ LET hit == SelectSeq(visible_versions(p), LAMBDA r : r.id \in ids)
         base == [IdleReq EXCEPT !.kind = "index", !.pc = "done",
                                 !.ids = ids]
         queried == [base EXCEPT !.log = <<<<"SELECT", "versions">>>>]
     IN req' = [req EXCEPT ![p] =
                  IF ids = {}
                  THEN [queried EXCEPT !.result = "storage_error"]
                  ELSE IF \E i \in 1..Len(hit) : from_row(hit[i]) = Panicked
                  THEN [queried EXCEPT !.result = "panic"]
                  ELSE [queried EXCEPT
                          !.result = "ok",
                          !.out = [i \in 1..Len(hit) |->
                                     encodable(from_row(hit[i]),
                                       Crate_find(hit[i].crate_id).name)]]]
  /\ UNCHANGED <<versions, version_authors, dependencies, index, nextId, now,
                 tx, nextDepId>>

\* index, lines 209-242: no query for an empty id list; otherwise every row
\* with an id of the list goes through from_row and encodable, in storage
\* order, with the name of its crate (LEFT JOIN crates).
index_req(p, ids) ==
  /\ Free(p)
  /\ LET hit == SelectSeq(visible_versions(p), LAMBDA r : r.id \in ids)
         base == [IdleReq EXCEPT !.kind = "index", !.pc = "done",
                                 !.ids = ids]
         queried == [base EXCEPT !.log = <<<<"SELECT", "versions">>>>]
     IN req' = [req EXCEPT ![p] =
                  IF ids = {}
                  THEN [base EXCEPT !.result = "ok"]
                  ELSE IF \E i \in 1..Len(hit) : from_row(hit[i]) = Panicked
                  THEN [queried EXCEPT !.result = "panic"]
                  ELSE [queried EXCEPT
                          !.result = "ok",
                          !.out = [i \in 1..Len(hit) |->
                                     encodable(from_row(hit[i]),
                                       Crate_find(hit[i].crate_id).name)]]]
  /\ UNCHANGED <<versions, version_authors, dependencies, index, nextId, now,
                 tx, nextDepId>>

(***************************************************************************)
(* AuthorResolver reads: Version::authors and the get-authors handler.     *)
(***************************************************************************)
\* A user id that an author row still references after the user is gone.
GoneUser == 9

\* User::find: the user of that id, or NotFound.
User_find(id) ==
  IF id \in Users THEN [err |-> "ok", user |-> id]
  ELSE [err |-> "not_found", user |-> NoUser]

AuthorUser(u) == [tag |-> "AuthorUser", user |-> u, name |-> ""]
AuthorName(n) == [tag |-> "AuthorName", user |-> NoUser, name |-> n]

\* Variant: a row whose user is gone falls back to its free-text name.
Version_authors_fallback(rows, id) ==
  LET hit == SelectSeq(rows, LAMBDA r : r.version_id = id)
      linked == {i \in 1..Len(hit) : hit[i].user_id # NoUser}
  IN [err |-> "ok",
      list |-> [i \in 1..Len(hit) |->
                  IF i \in linked /\ User_find(hit[i].user_id).err = "ok"
                  THEN AuthorUser(User_find(hit[i].user_id).user)
                  ELSE AuthorName(hit[i].name)],
      lookups |-> Cardinality(linked)]

\* Version::authors, lines 159-171: the rows of the version in storage
\* order, each mapped to a variant; collect stops at the first Err of
\* User::find and returns it.  lookups counts the calls of User::find.
Version_authors(rows, id) ==
  LET hit == SelectSeq(rows, LAMBDA r : r.version_id = id)
      linked == {i \in 1..Len(hit) : hit[i].user_id # NoUser}
      gone == {i \in linked : User_find(hit[i].user_id).err # "ok"}
  IN IF gone = {}
     THEN [err |-> "ok",
           list |-> [i \in 1..Len(hit) |->
                       IF i \in linked
                       THEN AuthorUser(User_find(hit[i].user_id).user)
                       ELSE AuthorName(hit[i].name)],
           lookups |-> Cardinality(linked)]
     ELSE LET first == CHOOSE i \in gone : \A j \in gone : i <= j
          IN [err |-> "not_found", list |-> <<>>,
              lookups |-> Cardinality({i \in linked : i <= first})]

\* authors, lines 310-326: the variants split into users and names.
authors_req(p, crate_name, semver) ==
  /\ Free(p)
  /\ LET vc == version_and_crate(visible_versions(p), crate_name, semver)
         a == Version_authors(visible_authors(p), vc.version.id)
         base == [IdleReq EXCEPT !.kind = "authors", !.pc = "done",
                                 !.crate_name = crate_name,
                                 !.semver = semver,
                                 !.version = vc.version, !.krate = vc.krate]
         looked == [base EXCEPT
                      !.log = [i \in 1..a.lookups |-> <<"USER_FIND", i>>]]
         users == SelectSeq(a.list, LAMBDA x : x.tag = "AuthorUser")
         names == SelectSeq(a.list, LAMBDA x : x.tag = "AuthorName")
     IN req' = [req EXCEPT ![p] =
                  IF vc.err # "ok" THEN [base EXCEPT !.result = vc.err]
                  ELSE IF a.err # "ok" THEN [looked EXCEPT !.result = a.err]
                  ELSE [looked EXCEPT
                          !.result = "ok",
                          !.out = <<[users |-> [i \in 1..Len(users) |->
                                                  users[i].user],
                                     names |-> [i \in 1..Len(names) |->
                                                  names[i].name]]>>]]
  /\ UNCHANGED <<versions, version_authors, dependencies, index, nextId, now,
                 tx, nextDepId>>

(***************************************************************************)
(* Download statistics: downloads, lines 291-308.  Table version_downloads *)
(* is written by an aggregator outside this core; time is counted in days. *)
(***************************************************************************)
CutoffDays == 90

VersionDownloads ==
  << [id |-> 1, version_id |-> 1, date |-> 0, downloads |-> 4],
     [id |-> 2, version_id |-> 1, date |-> 0 - CutoffDays - 1, downloads |-> 1],
     [id |-> 3, version_id |-> 2, date |-> 0 - 1, downloads |-> 7],
     [id |-> 4, version_id |-> 1, date |-> 1 - CutoffDays, downloads |-> 2],
     [id |-> 5, version_id |-> 1, date |-> 0 - CutoffDays, downloads |-> 3] >>

\* Variant: the query has no ORDER BY and answers in storage order.
order_by_date_off(rows) == rows

\* ORDER BY date ASC.
RECURSIVE order_by_date(_)
order_by_date(rows) ==
  IF rows = <<>> THEN <<>>
  ELSE LET m == CHOOSE i \in 1..Len(rows) :
                  \A j \in 1..Len(rows) :
                    \/ rows[i].date < rows[j].date
                    \/ rows[i].date = rows[j].date /\ i <= j
       IN <<rows[m]>> \o order_by_date(SubSeq(rows, 1, m - 1)
                                          \o SubSeq(rows, m + 1, Len(rows)))

\* downloads, lines 291-308: the rows of the version dated after
\* now - 90 days, in ascending date order.
downloads_req(p, crate_name, semver) ==
  /\ Free(p)
  /\ LET vc == version_and_crate(visible_versions(p), crate_name, semver)
         cutoff_date == now - CutoffDays
         hit == SelectSeq(VersionDownloads,
                          LAMBDA r : r.date > cutoff_date
                                       /\ r.version_id = vc.version.id)
         base == [IdleReq EXCEPT !.kind = "downloads", !.pc = "done",
                                 !.crate_name = crate_name,
                                 !.semver = semver,
                                 !.version = vc.version, !.krate = vc.krate,
                                 !.result = vc.err]
     IN req' = [req EXCEPT ![p] =
                  IF vc.err # "ok" THEN base
                  ELSE [base EXCEPT !.out = order_by_date(hit)]]
  /\ UNCHANGED <<versions, version_authors, dependencies, index, nextId, now,
                 tx, nextDepId>>

\* The rows of demo 1.0.0 and alpha 2.0.0 as Version::insert writes them.
PublishedRows ==
  << new_version_row(1, 1, semver_to_string(<<1, 0, 0>>), 0,
                     <<json_encode(EmptyFeatures)>>),
     new_version_row(2, 2, semver_to_string(<<2, 0, 0>>), 0,
                     <<json_encode(EmptyFeatures)>>) >>

\* The requests that address them.
Published == {<<"demo", S100>>, <<"alpha", S200>>}

\* A store in which the two have been published and nothing is in flight.
InitPublished ==
  /\ versions = PublishedRows
  /\ version_authors = <<>>
  /\ dependencies = <<>>
  /\ index = [k \in CrateNames \X {semver_to_string(v) : v \in SemverValues}
                |-> FALSE]
  /\ nextId = Len(PublishedRows) + 1
  /\ now = 0
  /\ req = [p \in Procs |-> IdleReq]
  /\ tx = [p \in Procs |-> NoTx]
  /\ nextDepId = 1

(***************************************************************************)
(* Spec: the whole core from the empty store, one request at a time; yank, *)
(* unyank and get address demo 1.0.0, author lists are empty or "ann",     *)
(* dependencies are added to the first version, on alpha or on no crate,   *)
(* and the clock stands still.                                             *)
(***************************************************************************)
Solo == {CHOOSE p \in Procs : \A q \in Procs : p <= q}

ShortLists == {<<>>, <<"ann">>}

Next ==
  \/ \E p \in Solo, c \in CrateIds, v \in SemverValues, f \in {EmptyFeatures},
        a \in ShortLists : Version_insert(p, c, v, f, a)
  \/ \E p \in Solo : add_author(p)
  \/ \E p \in Solo, d \in {x \in DepSpecs : x.name # "demo"} :
       add_dependency(p, 1, d)
  \/ \E p \in Solo : tx_end(p)
  \/ \E p \in Solo : yank(p, "demo", S100, 5)
  \/ \E p \in Solo : unyank(p, "demo", S100, 5)
  \/ \E p \in Solo : Version_yank(p)
  \/ \E p \in Solo : git_yank(p)
  \/ \E p \in Solo : show(p, "demo", S100)
  \/ \E p \in Solo, id \in 0..MaxVersions : show_by_id(p, id)

Spec == Init /\ [][Next]_vars

(***************************************************************************)
(* SpecInsert: concurrent publishes into the empty store.                  *)
(***************************************************************************)
NextInsert ==
  \/ \E p \in Procs, c \in CrateIds, v \in SemverValues, f \in FeatureMaps,
        a \in AuthorLists : Version_insert(p, c, v, f, a)
  \/ \E p \in Procs : add_author(p)
  \/ \E p \in Procs : tx_end(p)

SpecInsert == Init /\ [][NextInsert]_vars

(***************************************************************************)
(* SpecYank: the yank state machine over the published store, concurrent   *)
(* calls on demo 1.0.0 by its owner 5 and by user 7, who owns alpha only.  *)
(***************************************************************************)
YankTargets == {<<"demo", S100>>}

NextYank ==
  \/ \E p \in Procs, t \in YankTargets, u \in Users : yank(p, t[1], t[2], u)
  \/ \E p \in Procs, t \in YankTargets, u \in Users :
       unyank(p, t[1], t[2], u)
  \/ \E p \in Procs : Version_yank(p)
  \/ \E p \in Procs : git_yank(p)
  \/ \E p \in Procs : tx_end(p)

SpecYank == InitPublished /\ [][NextYank]_vars

(***************************************************************************)
(* SpecSync: SpecYank in an environment where every index call succeeds.   *)
(***************************************************************************)
NextSync ==
  \/ \E p \in Procs, t \in YankTargets, u \in Users : yank(p, t[1], t[2], u)
  \/ \E p \in Procs, t \in YankTargets, u \in Users :
       unyank(p, t[1], t[2], u)
  \/ \E p \in Procs : Version_yank(p)
  \/ \E p \in Procs : git_yank(p) /\ req'[p].result = "ok"
  \/ \E p \in Procs : tx_end(p)

SpecSync == InitPublished /\ [][NextSync]_vars

(***************************************************************************)
(* SpecLookup: requests addressed by any crate name, version string or     *)
(* version id over the published store, one at a time.                     *)
(***************************************************************************)
NextLookup ==
  \/ \E p \in Solo, n \in RequestNames, s \in RawSemvers, u \in Identities :
       yank(p, n, s, u)
  \/ \E p \in Solo, n \in RequestNames, s \in RawSemvers :
       unyank(p, n, s, 5)
  \/ \E p \in Solo : Version_yank(p)
  \/ \E p \in Solo : git_yank(p)
  \/ \E p \in Solo : tx_end(p)
  \/ \E p \in Solo, n \in RequestNames, s \in RawSemvers : show(p, n, s)
  \/ \E p \in Solo, id \in 0..MaxVersions + 1 : show_by_id(p, id)

SpecLookup == InitPublished /\ [][NextLookup]_vars

(***************************************************************************)
(* SpecDeps: dependencies added to the two published versions, one        *)
(* request at a time, and read back.                                       *)
(***************************************************************************)
NextDeps ==
  \/ \E p \in Solo, i \in 1..MaxVersions, d \in DepSpecs :
       add_dependency(p, i, d)
  \/ \E p \in Solo : tx_end(p)
  \/ \E p \in Solo, n \in RequestNames, v \in RawSemvers :
       dependencies_req(p, n, v)

SpecDeps == InitPublished /\ [][NextDeps]_vars

(***************************************************************************)
(* SpecRead: the read operations over stores as other parts of the         *)
(* registry and earlier schema versions have left them: rows of versions   *)
(* whose feature blob is NULL, a stored text of Version::insert, or a text *)
(* that is not a feature map; author rows with and without a user          *)
(* reference, some to a user that is gone.                                 *)
(***************************************************************************)
BadBlob == <<"{", "ssl", "[", "std", "}">>

StoredBlobs ==
  {<<>>, <<BadBlob>>} \cup {<<json_encode(f)>> : f \in FeatureMaps}

\* demo 1.0.0 and demo 2.0.0 with stored blobs b1 and b2.
StoredVersions(b1, b2) ==
  << new_version_row(1, 1, semver_to_string(<<1, 0, 0>>), 0, b1),
     new_version_row(2, 1, semver_to_string(<<2, 0, 0>>), 0, b2) >>

StoredAuthorRows ==
  [version_id : 1..MaxVersions, name : {"ann"},
   user_id : {NoUser, 5, GoneUser}]

StoredAuthorTables ==
  UNION {[1..n -> StoredAuthorRows] : n \in 0..MaxAuthors}

InitRead ==
  /\ \E b1, b2 \in StoredBlobs : versions = StoredVersions(b1, b2)
  /\ version_authors \in StoredAuthorTables
  /\ versions = StoredVersions(<<>>, <<>>) \/ version_authors = <<>>
  /\ dependencies = <<>>
  /\ index = [k \in CrateNames \X {semver_to_string(v) : v \in SemverValues}
                |-> FALSE]
  /\ nextId = 3
  /\ now = 0
  /\ req = [p \in Procs |-> IdleReq]
  /\ tx = [p \in Procs |-> NoTx]
  /\ nextDepId = 1

NextRead ==
  \/ \E p \in Solo, s \in {S100, S200} : show(p, "demo", s)
  \/ \E p \in Solo, id \in 0..MaxVersions : show_by_id(p, id)
  \/ \E p \in Solo, ids \in IdSets : index_req(p, ids)
  \/ \E p \in Solo, s \in {S100, S200} : authors_req(p, "demo", s)
  \/ \E p \in Solo, s \in {S100, S200} : downloads_req(p, "demo", s)
  \/ Tick

SpecRead == InitRead /\ [][NextRead]_vars

(***************************************************************************)
(* Properties of the yank state machine (SpecYank).                        *)
(***************************************************************************)
YankCalls == {p \in Procs : IsYankKind(req[p].kind)}

\* The acting identity of call p is an owner of the crate it resolved.
ByOwner(p) ==
  req[p].krate # NoCrate /\ req[p].user \in req[p].krate.owners

\* C1: a yank / unyank call by an owner that reads the stored flag already
\* equal to the requested one performs no UPDATE and no index call and
\* answers ok; a call that repeats the caller's previous call, with nothing
\* else run in between, brings the two calls' UPDATEs to at most one and
\* their index calls to at most one.
C1_IdempotentNoOp ==
  \A p \in YankCalls :
    /\ (ByOwner(p) /\ req[p].version # NoVersion
          /\ req[p].version.yanked = req[p].yanked)
         => /\ req[p].pc = "done"
            /\ req[p].log = <<>>
            /\ req[p].result = "ok"
            /\ tx[p] = NoTx
    /\ (ByOwner(p) /\ req[p].prior # <<>>)
         => /\ req[p].prior[1].updates + updates_done(req[p].log) <= 1
            /\ req[p].prior[1].index_calls + index_calls(req[p].log) <= 1

\* A repeated yank by an owner, after a first one that wrote the flag and
\* called the index, has finished without a write.
C1_Witness ==
  \E p \in YankCalls :
    /\ ByOwner(p) /\ req[p].pc = "done" /\ req[p].result = "ok"
    /\ req[p].prior # <<>>
    /\ req[p].prior[1].updates = 1 /\ req[p].prior[1].index_calls = 1
    /\ req[p].log = <<>>

\* The committed row with that id.
RowOf(id) == versions[CHOOSE i \in 1..Len(versions) : versions[i].id = id]

NonOwner(p) ==
  req[p].krate # NoCrate /\ req[p].user \notin req[p].krate.owners

\* C2: a yank / unyank call whose acting identity is not an owner of the
\* version's crate answers Unauthorized, writes nothing to the relational
\* store and does not call the index, whatever the stored and the requested
\* flag.
C2_NonOwnerRefused ==
  /\ [](\A p \in YankCalls :
          NonOwner(p) => /\ req[p].pc = "done"
                         /\ req[p].result = "unauthorized"
                         /\ req[p].log = <<>>
                         /\ tx[p] = NoTx)
  /\ [][\A p \in Procs :
          (req'[p] # req[p] /\ IsYankKind(req'[p].kind) /\ NonOwner(p)')
            => /\ versions' = versions
               /\ index' = index
               /\ tx' = tx]_vars

\* User 7, no owner of demo, was refused an unyank of yanked demo 1.0.0.
C2_Witness ==
  \E p \in YankCalls :
    /\ NonOwner(p) /\ req[p].result = "unauthorized"
    /\ req[p].kind = "unyank" /\ req[p].version.yanked
    /\ RowOf(req[p].version.id).yanked

\* The log a call may have: the UPDATE of its version's row to the
\* requested flag, then the index call for (crate name, number, flag).
UpdateEvent(p, ok) == <<"UPDATE", req[p].version.id, req[p].yanked, ok>>

IndexEvent(p, ok) ==
  <<"INDEX", Crate_find(req[p].version.crate_id).name,
    RowOf(req[p].version.id).num, req[p].yanked, ok>>

\* C3: a state-changing call by an owner updates the relational flag first
\* and calls the index only after that update has succeeded, exactly once,
\* with (crate name, version number, new flag); when the update fails the
\* index is not called.
C3_UpdateThenIndex ==
  \A p \in YankCalls :
    /\ req[p].log # <<>> =>
         req[p].log \in { <<UpdateEvent(p, FALSE)>>,
                          <<UpdateEvent(p, TRUE)>>,
                          <<UpdateEvent(p, TRUE), IndexEvent(p, TRUE)>>,
                          <<UpdateEvent(p, TRUE), IndexEvent(p, FALSE)>> }
    /\ req[p].pc = "git" =>
         /\ req[p].log = <<UpdateEvent(p, TRUE)>>
         /\ <<req[p].version.id, req[p].yanked>> \in tx[p].yanks
    /\ (req[p].pc \in {"end", "done"} /\ ByOwner(p)
          /\ req[p].version.yanked # req[p].yanked)
         => /\ Len(req[p].log) >= 1
            /\ req[p].result = "ok" <=>
                 req[p].log = <<UpdateEvent(p, TRUE), IndexEvent(p, TRUE)>>
            /\ req[p].result = "storage_error" <=>
                 req[p].log = <<UpdateEvent(p, FALSE)>>
            /\ req[p].result = "index_error" <=>
                 req[p].log = <<UpdateEvent(p, TRUE), IndexEvent(p, FALSE)>>

\* Owner 5 has yanked demo 1.0.0: one UPDATE, then one index call.
C3_Witness ==
  \E p \in YankCalls :
    /\ req[p].pc = "done" /\ req[p].result = "ok"
    /\ req[p].log = << <<"UPDATE", 1, TRUE, TRUE>>,
                       <<"INDEX", "demo", S100, TRUE, TRUE>> >>

IndexKey(p) == <<req[p].krate.name, semver_to_string(req[p].version.num)>>

\* C4: when the UPDATE of a call succeeds and its index call fails, the call
\* ends with the relational store holding the new flag and the index
\* holding what it held before, so the two differ wherever the index held
\* the old flag; the index is written by nothing but the successful index
\* call of a state-changing call.
C4_StoresDiverge ==
  /\ [][\A p \in Procs :
          (IsYankKind(req[p].kind) /\ req[p].pc = "git"
             /\ req'[p].result = "index_error")
            => index' = index /\ tx' = tx /\ versions' = versions]_vars
  /\ [][\A p \in Procs :
          (IsYankKind(req[p].kind) /\ req[p].pc = "end"
             /\ req[p].result = "index_error" /\ req'[p].pc = "done")
            => /\ RowOf(req[p].version.id)'.yanked = req[p].yanked
               /\ index' = index
               /\ index[IndexKey(p)] # req[p].yanked
                    => index'[IndexKey(p)] #
                         RowOf(req[p].version.id)'.yanked]_vars
  /\ [][index' # index
          => \E p \in Procs : req[p].pc = "git" /\ req'[p].result = "ok"]_vars

\* Nothing is in flight, the last call failed in the index, and demo 1.0.0
\* is yanked in the relational store and not yanked in the index.
C4_Witness ==
  /\ \A p \in Procs : Free(p)
  /\ \E p \in YankCalls : req[p].result = "index_error"
  /\ RowOf(1).yanked
  /\ ~index[<<"demo", S100>>]

\* C5: of two concurrent yank calls by owners on one not-yanked version at
\* most one performs the flag update: an UPDATE in flight always changes
\* the committed flag, the call that comes second to a committed flip finds
\* the version in the requested state and writes nothing.
C5_OneCallFlips ==
  \A p \in Procs : \A w \in tx[p].yanks : RowOf(w[1]).yanked # w[2]

(***************************************************************************)
(* Properties of publishing (SpecInsert).                                  *)
(***************************************************************************)
\* The author rows insert is to leave for version id and the names given.
AuthorRows(id, names) ==
  [i \in 1..Len(names) |->
     [version_id |-> id, name |-> names[i], user_id |-> NoUser]]

InsertEnds(p) ==
  req[p].kind = "insert" /\ req[p].pc = "end" /\ req'[p].pc = "done"

\* C6: when the insertion of an author row fails, insert returns an error
\* and its transaction is rolled back; a transaction of insert that ends
\* leaves either the new version row together with one author row for each
\* supplied name, or nothing at all; author rows come from nowhere else.
C6_AllAuthorsOrNothing ==
  /\ [][\A p \in Procs :
          (req[p].kind = "insert" /\ req[p].pc = "authors" /\ tx'[p].failed)
            => req'[p].pc = "end" /\ req'[p].result = "storage_error"]_vars
  /\ [][\A p \in Procs :
          InsertEnds(p) =>
            IF req[p].result = "ok"
            THEN /\ Len(versions') = Len(versions) + 1
                 /\ SubSeq(versions', 1, Len(versions)) = versions
                 /\ from_row(versions'[Len(versions')]) = req[p].version
                 /\ version_authors' =
                      version_authors
                        \o AuthorRows(req[p].version.id, req[p].authors)
            ELSE /\ versions' = versions
                 /\ version_authors' = version_authors]_vars
  /\ [][version_authors' # version_authors
          => \E p \in Procs : InsertEnds(p) /\ req[p].result = "ok"]_vars

\* An insert of two authors wrote the version row and the first author row,
\* failed on the second, and is about to be rolled back.
C6_Witness ==
  \E p \in Procs :
    /\ req[p].kind = "insert" /\ req[p].pc = "end"
    /\ req[p].result = "storage_error" /\ tx[p].failed
    /\ Len(req[p].authors) = 2
    /\ Len(tx[p].versions) = 1 /\ Len(tx[p].authors) = 1

\* C7: no two committed version rows have the same crate id and the same
\* semantic version, and every stored number is in canonical form.
C7_UniqueVersions ==
  /\ \A i, j \in 1..Len(versions) :
       i # j => /\ versions[i].id # versions[j].id
                /\ ~(/\ versions[i].crate_id = versions[j].crate_id
                     /\ semver_parse(versions[i].num)
                          = semver_parse(versions[j].num))
  /\ \A i \in 1..Len(versions) :
       /\ valid(versions[i].num)
       /\ semver_to_string(semver_parse(versions[i].num)) = versions[i].num

\* An insert repeating the crate id and number of a committed version has
\* been refused.
C7_Witness ==
  \E p \in Procs :
    /\ req[p].kind = "insert" /\ req[p].pc = "end"
    /\ req[p].log = << <<"INSERT", "unique_violation">> >>
    /\ tx[p].failed /\ tx[p].versions = <<>>
    /\ Len(versions) = 1 /\ nextId = 3

(***************************************************************************)
(* Properties of the whole core (Spec).                                    *)
(***************************************************************************)
\* C8: no step of any operation deletes a version row or changes its id,
\* crate_id, num, created_at, updated_at, downloads or features; the yanked
\* field of a row changes only when a yank / unyank call given that row's
\* id commits, to the flag requested, every other row staying as it was.
C8_VersionsImmutable ==
  [][/\ Len(versions') >= Len(versions)
     /\ \A i \in 1..Len(versions) :
          /\ versions'[i] = [versions[i] EXCEPT !.yanked = versions'[i].yanked]
          /\ versions'[i].yanked # versions[i].yanked
               => \E p \in Procs :
                    /\ IsYankKind(req[p].kind)
                    /\ req[p].pc = "end" /\ req'[p].pc = "done"
                    /\ req[p].version.id = versions[i].id
                    /\ versions'[i].yanked = req[p].yanked]_vars

\* Two versions are stored, demo 1.0.0 has been yanked and the other has
\* not, and a dependency row has been added.
C8_Witness ==
  /\ Len(versions) = 2
  /\ \E i, j \in 1..2 : versions[i].yanked /\ ~versions[j].yanked
  /\ dependencies # <<>>

\* The committed rows of crate c whose number denotes version v.
Matching(c, v) ==
  {i \in 1..Len(versions) :
     versions[i].crate_id = c /\ semver_parse(versions[i].num) = v}

\* C9: on every reachable table and for every crate id and version,
\* find_by_num answers Ok with no version when no row has that crate id and
\* number, and otherwise Ok with a row of exactly that crate id and number.
C9_FindByNum ==
  \A c \in CrateIds \cup {0}, v \in SemverValues :
    LET r == find_by_num(versions, c, v) IN
    /\ r.err = "ok"
    /\ Matching(c, v) = {} => r.version = NoVersion
    /\ Matching(c, v) # {} =>
         \E i \in Matching(c, v) :
           /\ r.version.id = versions[i].id
           /\ r.version.crate_id = c
           /\ r.version.num = v
           /\ r.version.yanked = versions[i].yanked

\* A get of demo 1.0.0 found no version while the store holds a row of
\* another crate with that number or of demo with another number.
C9_Witness ==
  /\ \E p \in Procs :
       /\ req[p].kind = "show" /\ req[p].result = "no_such_version"
       /\ req[p].crate_name = "demo" /\ req[p].semver = S100
  /\ Matching(1, <<1, 0, 0>>) = {}
  /\ Matching(2, <<1, 0, 0>>) # {}
  /\ Matching(1, <<2, 0, 0>>) # {}

(***************************************************************************)
(* Properties of request resolution (SpecLookup).                          *)
(***************************************************************************)
ByNameKinds == {"show", "yank", "unyank"}

LookupErrors == {"invalid_semver", "crate_not_found", "no_such_version"}

\* What the record of a request addressed by (crate name, semver) holds.
ResolvedRight(r) ==
  LET num == semver_parse(r.semver)
      krate == Crate_find_by_name(r.crate_name)
  IN /\ num = NoSemver => r.result = "invalid_semver"
     /\ num # NoSemver /\ krate = NoCrate => r.result = "crate_not_found"
     /\ r.result \in LookupErrors =>
          r.pc = "done" /\ r.log = <<>> /\ r.version = NoVersion
     /\ r.version # NoVersion =>
          /\ krate # NoCrate
          /\ r.version.crate_id = krate.id
          /\ r.version.num = num
          /\ \E i \in Matching(krate.id, num) : versions[i].id = r.version.id

\* The step in which slot p takes a new request and r is its record.
ResolvedStep(p) ==
  LET r == req'[p]
      num == semver_parse(r.semver)
      krate == Crate_find_by_name(r.crate_name)
  IN /\ r.kind \in ByNameKinds =>
          /\ r.result = "no_such_version"
               <=> /\ num # NoSemver
                   /\ krate # NoCrate
                   /\ Matching(krate.id, num) = {}
          /\ (num # NoSemver /\ krate # NoCrate
                /\ Matching(krate.id, num) # {})
               => \E i \in Matching(krate.id, num) :
                    versions[i].id = r.version.id
          /\ r.result \in LookupErrors =>
               UNCHANGED <<versions, version_authors, dependencies, index,
                           tx, nextId, nextDepId>>
     /\ r.kind = "show_by_id" =>
          /\ r.result = "not_found"
               <=> ~ \E i \in 1..Len(versions) : versions[i].id = r.id
          /\ r.result = "ok" => r.version.id = r.id
          /\ UNCHANGED <<versions, version_authors, dependencies, index,
                         tx, nextId, nextDepId>>

\* C10: a request addressed by (crate name, semver) resolves to the version
\* of that crate with that number when it exists; a malformed semver
\* (whatever the crate name), an unknown crate name or a missing version
\* ends the request with that error, with no write, no index call and no
\* store changed; a get by id answers not found exactly when no row has
\* that id.
C10_Resolution ==
  /\ [](\A p \in Procs : req[p].kind \in ByNameKinds => ResolvedRight(req[p]))
  /\ [][\A p \in Procs :
          Free(p) /\ req'[p] # req[p] => ResolvedStep(p)]_vars

\* After demo 1.0.0 has been yanked, a yank by an owner naming no crate and
\* a malformed semver was refused as invalid semver and changed nothing.
C10_Witness ==
  /\ \E p \in Procs :
       /\ req[p].kind = "yank" /\ req[p].pc = "done"
       /\ req[p].crate_name = "ghost" /\ req[p].semver = SBad
       /\ req[p].user = 5
       /\ req[p].result = "invalid_semver"
       /\ req[p].log = <<>>
  /\ versions[1].yanked /\ ~versions[2].yanked
  /\ index[<<"demo", "1.0.0">>]

(***************************************************************************)
(* Properties of loading stored rows (SpecRead).                           *)
(***************************************************************************)
\* The stored rows that the finished request of slot p has loaded.
TargetRows(p) ==
  IF req[p].kind = "show_by_id"
  THEN {i \in 1..Len(versions) : versions[i].id = req[p].id}
  ELSE IF req[p].kind = "index"
  THEN {i \in 1..Len(versions) : versions[i].id \in req[p].ids}
  ELSE IF req[p].kind = "show" /\ req[p].crate_name \in CrateNames
          /\ valid(req[p].semver)
  THEN Matching(Crate_find_by_name(req[p].crate_name).id,
                semver_parse(req[p].semver))
  ELSE {}

\* The stored text of the row is not a feature map.
Undecodable(row) ==
  row.features # <<>> /\ ~json_decode(row.features[1]).ok

\* C11: a stored row whose feature blob is NULL loads, and loads with the
\* empty feature map: from_row does not fail on it, and a get of such a
\* version, by id or by name, succeeds and answers with empty features.
C11_NullBlobLoadsEmpty ==
  /\ \A i \in 1..Len(versions) :
       versions[i].features = <<>> =>
         /\ from_row(versions[i]) # Panicked
         /\ from_row(versions[i]).features = EmptyFeatures
         /\ from_row(versions[i]).id = versions[i].id
  /\ \A p \in Procs :
       /\ req[p].kind \in {"show", "show_by_id"}
       /\ TargetRows(p) # {}
       /\ \A i \in TargetRows(p) : versions[i].features = <<>>
       => /\ req[p].result = "ok"
          /\ req[p].version.features = EmptyFeatures
          /\ req[p].out[1].features = EmptyFeatures

\* A get by id of version 1, stored with a NULL blob beside a row whose
\* blob is not a feature map, has succeeded.
C11_Witness ==
  /\ versions[1].features = <<>>
  /\ Undecodable(versions[2])
  /\ \E p \in Procs :
       /\ req[p].kind = "show_by_id" /\ req[p].id = 1
       /\ req[p].result = "ok"
       /\ req[p].out[1].features = EmptyFeatures

\* C12: every finished operation that loaded a row whose stored feature
\* blob does not deserialize has returned an internal error to its caller.
C12_DecodeFailureIsInternal ==
  \A p \in Procs :
    /\ req[p].kind \in {"show", "show_by_id", "index"}
    /\ req[p].pc = "done"
    /\ \E i \in TargetRows(p) : Undecodable(versions[i])
    => req[p].result = "internal_error"

(***************************************************************************)
(* Properties of the dependency graph (SpecDeps).                          *)
(***************************************************************************)
\* C13: an add_dependency call ends with the user-facing error "no known
\* crate named X" only when no crate has the name X; a storage error of the
\* crate lookup is not reported as that error.
C13_UserErrorOnlyForUnknownName ==
  \A p \in Procs :
    req[p].kind = "add_dependency" /\ req[p].result = "no_known_crate"
    => Crate_find_by_name(req[p].crate_name) = NoCrate

\* The committed dependency rows of version id, by position.
DepsOf(id) ==
  {i \in 1..Len(dependencies) : dependencies[i].version_id = id}

\* C14: a get-dependencies request answers with exactly the committed
\* dependency rows of the resolved version: one record per row, none of
\* another version, in the order of insertion (storage order, ascending
\* serial id), each with the name of the crate the row references.
C14_DependenciesOfVersion ==
  [][\A p \in Procs :
       /\ Free(p) /\ req'[p] # req[p]
       /\ req'[p].kind = "dependencies" /\ req'[p].result = "ok"
       => LET out == req'[p].out
              own == DepsOf(req'[p].version.id)
              row(k) == CHOOSE i \in own : dependencies[i].id = out[k].id
          IN /\ Len(out) = Cardinality(own)
             /\ \A i \in own :
                  \E k \in 1..Len(out) : out[k].id = dependencies[i].id
             /\ \A k \in 1..Len(out) :
                  /\ \E i \in own : dependencies[i].id = out[k].id
                  /\ out[k].version_id = req'[p].version.id
                  /\ \E c \in Crates :
                       /\ c.id = dependencies[row(k)].crate_id
                       /\ out[k].crate_id = c.name
                  /\ out[k].req = dependencies[row(k)].req
                  /\ out[k].optional = dependencies[row(k)].optional
             /\ \A k, l \in 1..Len(out) :
                  k < l => row(k) < row(l) /\ out[k].id < out[l].id]_vars

\* Version 1 was given a dependency on alpha and then one on demo, and a
\* get of its dependencies answered with the two records in that order.
C14_Witness ==
  \E p \in Procs :
    /\ req[p].kind = "dependencies" /\ req[p].result = "ok"
    /\ req[p].version.id = 1
    /\ Len(req[p].out) = 2
    /\ req[p].out[1].crate_id = "alpha"
    /\ req[p].out[2].crate_id = "demo"

(***************************************************************************)
(* Properties of the author resolver (SpecRead).                           *)
(***************************************************************************)
\* The committed author rows of version id, in storage order.
AuthorsOf(id) == SelectSeq(version_authors, LAMBDA r : r.version_id = id)

\* C15: a get-authors request on a resolved version fails with not found,
\* and answers no list, when some author row of the version references a
\* user that does not exist; otherwise it succeeds with the referenced
\* users of the rows that have a user reference and the names of the rows
\* that have none, each in row order, the two sizes adding up to the number
\* of author rows.
C15_AuthorsResolved ==
  \A p \in Procs :
    req[p].kind = "authors" /\ req[p].version # NoVersion
    => LET rows == AuthorsOf(req[p].version.id)
           linked == SelectSeq(rows, LAMBDA r : r.user_id # NoUser)
           free == SelectSeq(rows, LAMBDA r : r.user_id = NoUser)
       IN IF \E i \in 1..Len(linked) : linked[i].user_id \notin Users
          THEN req[p].result = "not_found" /\ req[p].out = <<>>
          ELSE /\ req[p].result = "ok"
               /\ Len(req[p].out) = 1
               /\ Len(req[p].out[1].users) + Len(req[p].out[1].names)
                    = Len(rows)
               /\ req[p].out[1].users
                    = [i \in 1..Len(linked) |-> linked[i].user_id]
               /\ req[p].out[1].names
                    = [i \in 1..Len(free) |-> free[i].name]

\* Version 1 has a free-text author row followed by a row whose user is
\* gone, and a get of its authors failed with not found and no list.
C15_Witness ==
  /\ Len(AuthorsOf(1)) = 2
  /\ AuthorsOf(1)[1].user_id = NoUser
  /\ AuthorsOf(1)[2].user_id = GoneUser
  /\ \E p \in Procs :
       /\ req[p].kind = "authors" /\ req[p].version.id = 1
       /\ req[p].result = "not_found"
       /\ req[p].out = <<>>

(***************************************************************************)
(* Properties of the list by ids (SpecRead).                               *)
(***************************************************************************)
\* C16: a list-by-ids request with no id answers the empty list, without
\* error and without a query; with ids whose rows all load, it answers
\* after one query with exactly one record per stored version whose id is
\* in the set, carrying that row's id, number, crate name and yanked flag,
\* and nothing for an id that has no row.
C16_ListByIds ==
  \A p \in Procs :
    req[p].kind = "index" =>
      LET r == req[p]
          sel == TargetRows(p)
      IN /\ r.ids = {} =>
              r.result = "ok" /\ r.out = <<>> /\ r.log = <<>>
         /\ (r.ids # {} /\ \A i \in sel : ~Undecodable(versions[i])) =>
              /\ r.result = "ok"
              /\ Len(r.log) = 1
              /\ Len(r.out) = Cardinality(sel)
              /\ \A i \in sel :
                   \E k \in 1..Len(r.out) :
                     /\ r.out[k].id = versions[i].id
                     /\ r.out[k].num = versions[i].num
                     /\ r.out[k].yanked = versions[i].yanked
                     /\ \E c \in Crates :
                          c.id = versions[i].crate_id
                            /\ r.out[k].krate = c.name
              /\ \A k \in 1..Len(r.out) : r.out[k].id \in r.ids

\* A list of ids 2 and 3 answered with the one record of version 2: no row
\* has id 3, and version 1 is stored but was not asked for.
C16_Witness ==
  \E p \in Procs :
    /\ req[p].kind = "index" /\ req[p].ids = {2, 3}
    /\ req[p].result = "ok"
    /\ Len(req[p].out) = 1 /\ req[p].out[1].id = 2
    /\ Len(versions) = 2

(***************************************************************************)
(* Properties of the download statistics (SpecRead).                       *)
(***************************************************************************)
\* C17: a get-downloads request on a resolved version answers, at the time
\* now of the call, with exactly the download rows of that version dated
\* after now - 90 days (none of another version, none dated at or before
\* the cutoff, none missing), in ascending date order.
C17_DownloadsWindow ==
  [][\A p \in Procs :
       /\ Free(p) /\ req'[p] # req[p]
       /\ req'[p].kind = "downloads" /\ req'[p].result = "ok"
       => LET out == req'[p].out
              id == req'[p].version.id
              want == {i \in 1..Len(VersionDownloads) :
                         /\ VersionDownloads[i].version_id = id
                         /\ now - VersionDownloads[i].date < CutoffDays}
          IN /\ Len(out) = Cardinality(want)
             /\ \A i \in want :
                  \E k \in 1..Len(out) : out[k] = VersionDownloads[i]
             /\ \A k \in 1..Len(out) :
                  /\ out[k].version_id = id
                  /\ out[k].date > now - CutoffDays
                  /\ out[k].date <= now
             /\ \A k, l \in 1..Len(out) :
                  k < l => out[k].date < out[l].date]_vars

\* At day 0 the downloads of version 1 were answered as the rows of day -89
\* and day 0 in that order: the rows of day -90 and day -91 and the row of
\* version 2 are left out, and the stored order is another.
C17_Witness ==
  /\ now = 0
  /\ \E p \in Procs :
       /\ req[p].kind = "downloads" /\ req[p].result = "ok"
       /\ req[p].version.id = 1
       /\ Len(req[p].out) = 2
       /\ req[p].out[1].date = 1 - CutoffDays
       /\ req[p].out[2].date = 0

(***************************************************************************)
(* Properties of the version encoder (SpecRead).                           *)
(***************************************************************************)
\* Version numbers whose canonical strings share digits and lengths.
EncodeNums ==
  SemverValues \cup {<<1, 1, 0>>, <<1, 10, 0>>, <<11, 0, 0>>, <<10, 1, 0>>}

\* The four derived paths of two encoder records are pairwise different.
LinksDiffer(a, b) ==
  /\ a.links.dependencies # b.links.dependencies
  /\ a.links.version_downloads # b.links.version_downloads
  /\ a.links.authors # b.links.authors
  /\ a.dl_path # b.dl_path

\* C18: the record of a version is determined by the version and the crate
\* name (a get by name, a get by id and a list answer the same record for
\* the same row), and for one crate name two versions with different
\* canonical version strings differ in their dependencies link, their
\* version-downloads link, their authors link and their download path.
C18_EncoderInjective ==
  /\ \A n \in CrateNames, a, b \in EncodeNums :
       semver_to_string(a) # semver_to_string(b) =>
         LinksDiffer(encodable([NoVersion EXCEPT !.num = a], n),
                     encodable([NoVersion EXCEPT !.num = b], n))
  /\ \A p \in Procs :
       /\ req[p].kind \in {"show", "show_by_id"} /\ req[p].result = "ok"
            => req[p].out
                 = <<encodable(from_row(versions[CHOOSE i \in 1..Len(versions) :
                                  versions[i].id = req[p].version.id]),
                               req[p].krate.name)>>
       /\ req[p].kind = "index" /\ req[p].result = "ok"
            => \A k, l \in 1..Len(req[p].out) :
                 /\ req[p].out[k].krate = req[p].out[l].krate
                 /\ req[p].out[k].num # req[p].out[l].num
                 => LinksDiffer(req[p].out[k], req[p].out[l])

\* A list answered with the records of demo 1.0.0 and demo 2.0.0, whose
\* links and download paths differ.
C18_Witness ==
  \E p \in Procs :
    /\ req[p].kind = "index" /\ req[p].result = "ok"
    /\ Len(req[p].out) = 2
    /\ req[p].out[1].krate = "demo" /\ req[p].out[2].krate = "demo"
    /\ req[p].out[1].num # req[p].out[2].num
    /\ LinksDiffer(req[p].out[1], req[p].out[2])

(***************************************************************************)
(* Properties of a successful insert (SpecInsert).                         *)
(***************************************************************************)
\* Version::insert of slot p has returned Ok.
InsertOk(p) ==
  req[p].kind = "insert" /\ req[p].pc = "end" /\ req[p].result = "ok"

FreeText(names) == [i \in 1..Len(names) |-> AuthorName(names[i])]

\* C19: when insert returns Ok, its transaction holds exactly one new
\* version row, with the given crate id, the canonical string of the given
\* version, downloads 0, created_at equal to updated_at and yanked false,
\* and exactly one author row per supplied name, duplicates included, in
\* the supplied order and with no user reference; authors() on the new
\* version, before and after the commit, answers the supplied names as
\* free-text variants and calls no user lookup.
C19_InsertCreates ==
  /\ [](\A p \in Procs :
          InsertOk(p) =>
            /\ Len(tx[p].versions) = 1
            /\ LET row == tx[p].versions[1] IN
               /\ row.crate_id = req[p].crate_id
               /\ row.num = semver_to_string(req[p].num)
               /\ semver_parse(row.num) = req[p].num
               /\ row.downloads = 0
               /\ row.created_at = row.updated_at
               /\ row.yanked = FALSE
               /\ \A i \in 1..Len(versions) : versions[i].id # row.id
               /\ req[p].version = from_row(row)
               /\ tx[p].authors = AuthorRows(row.id, req[p].authors)
               /\ Version_authors(visible_authors(p), row.id)
                    = [err |-> "ok", list |-> FreeText(req[p].authors),
                       lookups |-> 0])
  /\ [][\A p \in Procs :
          InsertOk(p) /\ req'[p].pc = "done" =>
            /\ versions' = versions \o tx[p].versions
            /\ Version_authors(version_authors', req[p].version.id)
                 = [err |-> "ok", list |-> FreeText(req[p].authors),
                    lookups |-> 0]]_vars

\* An insert with the same name supplied twice has returned Ok with its
\* version row and two author rows written.
C19_Witness ==
  \E p \in Procs :
    /\ InsertOk(p)
    /\ req[p].authors = <<"ann", "ann">>
    /\ Len(tx[p].authors) = 2
    /\ Len(tx[p].versions) = 1

(***************************************************************************)
(* Properties of the two stores together (SpecSync).                       *)
(***************************************************************************)
\* No call is in flight.
Quiescent == \A p \in Procs : Free(p)

\* The index entry of a stored version row.
IndexOf(row) == index[<<Crate_find(row.crate_id).name, row.num>>]

\* C20: from stores that agree, with every index call succeeding, in every
\* state with no call in flight the yanked flag of the index equals the
\* committed yanked flag of every version, whatever the interleaving of the
\* calls.
C20_StoresAgree ==
  Quiescent => \A i \in 1..Len(versions) : IndexOf(versions[i]) = versions[i].yanked

\* Two yank calls on demo 1.0.0 that both read the flag as false have both
\* written the row and called the index, and both have ended.
C20_Witness ==
  /\ Quiescent
  /\ \A p \in Procs :
       /\ req[p].kind = "yank" /\ req[p].version.id = 1
       /\ req[p].result = "ok"
       /\ updates_done(req[p].log) = 1 /\ index_calls(req[p].log) = 1
  /\ versions[1].yanked /\ IndexOf(versions[1])

====
